---- MODULE Spec2Model ----
(***************************************************************************)
(* Model of the Geaux Driving API (src/main.py): a FastAPI application     *)
(* whose POST endpoints validate a JSON body against a pydantic schema and *)
(* insert documents in the collections "booking" and "lead" of a document  *)
(* store, and whose GET endpoints list the documents or return fixed data. *)
(*                                                                         *)
(* One action models one HTTP request, handled from validation to          *)
(* response.  The store adapter (database.py: db, create_document,         *)
(* get_documents) is not part of src/ and is modelled from spec.md 4.2.    *)
(***************************************************************************)
EXTENDS Integers, Sequences, FiniteSets, TLC

VARIABLES
    db_available,   \* database.db is not None (fixed when the process starts)
    booking,        \* the store's collection "booking": a sequence of documents
    lead,           \* the store's collection "lead"
    nextId,         \* the store's generator of identifiers (and its clock)
    log,            \* the store operations the last request attempted, in order
    req,            \* the last request
    resp,           \* the response to the last request
    pre,            \* both collections as they were when the last request arrived
    submitted       \* history: identifier -> the body a successful create submitted

vars == <<db_available, booking, lead, nextId, log, req, resp, pre, submitted>>

----------------------------------------------------------------------------
(* Bounds of the model *)

\* the number of documents the store may come to hold
MaxDocs == 4
\* the explicit ?limit= values a list request may carry are 1..MaxLimit
MaxLimit == 2

----------------------------------------------------------------------------
(* Values.  A JSON or Python value is a record [t, v]: its type and its    *)
(* text.  Documents and request bodies are functions from field names to   *)
(* values.                                                                 *)

Str(s) == [t |-> "str", v |-> s]
None == [t |-> "None", v |-> ""]

\* hex(n) of the n-th identifier the store generates
Hex(n) == CASE n = 1 -> "65f000000000000000000001"
            [] n = 2 -> "65f000000000000000000002"
            [] n = 3 -> "65f000000000000000000003"
            [] n = 4 -> "65f000000000000000000004"
            [] n = 5 -> "65f000000000000000000005"
            [] OTHER -> "65f000000000000000000006"

\* the second of the n-th clock reading, as datetime keeps it
Tick(n) == CASE n = 1 -> "01" [] n = 2 -> "02" [] n = 3 -> "03"
             [] n = 4 -> "04" [] n = 5 -> "05" [] OTHER -> "06"

ObjectId(n) == [t |-> "ObjectId", v |-> Hex(n)]
DateTime(n) == [t |-> "datetime", v |-> Tick(n)]

\* str(ObjectId): the 24 hex digits
ObjectIdStr(x) == Str(x.v)
\* datetime.isoformat()
IsoFormat(x) == Str("2025-01-01T00:00:" \o x.v)

serialize_value_KeepsDatetime(v) ==
    IF v.t = "ObjectId" THEN ObjectIdStr(v) ELSE v

serialize_value(v) ==
    IF v.t = "ObjectId" THEN ObjectIdStr(v)
    ELSE IF v.t = "datetime" THEN IsoFormat(v)
    ELSE v

serialize_doc(doc) ==
    IF DOMAIN doc = {} THEN doc
    ELSE [k \in DOMAIN doc |-> serialize_value(doc[k])]

----------------------------------------------------------------------------
(* Schemas (pydantic models).  A field is [type, required, nullable,       *)
(* default]: `x: str = Field(...)` is required and not nullable,           *)
(* `x: Optional[str] = None` is neither, `x: str = Field("website")` has a *)
(* default and is not nullable.                                            *)

Required(type) == [type |-> type, required |-> TRUE, nullable |-> FALSE, default |-> None]
Optional == [type |-> "str", required |-> FALSE, nullable |-> TRUE, default |-> None]
Defaulted(s) == [type |-> "str", required |-> FALSE, nullable |-> FALSE, default |-> Str(s)]

BookingCreate_PhoneOptional ==
    [student_name |-> Required("str"), email |-> Required("EmailStr"),
     phone |-> Optional, service |-> Required("str"),
     instructor |-> Optional, date |-> Required("str"), time |-> Required("str"),
     pickup_location |-> Optional, notes |-> Optional]

BookingCreate ==
    [student_name |-> Required("str"), email |-> Required("EmailStr"),
     phone |-> Required("str"), service |-> Required("str"),
     instructor |-> Optional, date |-> Required("str"), time |-> Required("str"),
     pickup_location |-> Optional, notes |-> Optional]

LeadCreate_SourceBooking ==
    [name |-> Required("str"), email |-> Required("EmailStr"), phone |-> Optional,
     source |-> Defaulted("booking"), message |-> Optional, tag |-> Optional]

LeadCreate ==
    [name |-> Required("str"), email |-> Required("EmailStr"), phone |-> Optional,
     source |-> Defaulted("website"), message |-> Optional, tag |-> Optional]

ContactMessage ==
    [name |-> Required("str"), email |-> Required("EmailStr"),
     subject |-> Required("str"), message |-> Required("str")]

EmailTemplate(key, subject, html) == [key |-> key, subject |-> subject, html |-> html]

\* pydantic's EmailStr on the address texts the requests of this model carry:
\* an address needs a local part, one "@" and a domain with a period; the
\* validated value is the address with its domain part in lower case.
EmailStr(text) ==
    CASE text = "a@b.com"   -> [ok |-> TRUE, value |-> "a@b.com"]
      [] text = "ann@x.com" -> [ok |-> TRUE, value |-> "ann@x.com"]
      [] text = "Bob@X.COM" -> [ok |-> TRUE, value |-> "Bob@x.com"]
      [] OTHER              -> [ok |-> FALSE, value |-> text]

\* BaseModel validation of a JSON body: a field error for a required field
\* that is missing, a null where the type is not Optional, or an address
\* EmailStr rejects; fields the schema does not declare are ignored.
FieldOk(schema, body, f) ==
    IF f \in DOMAIN body
    THEN IF body[f] = None THEN schema[f].nullable
         ELSE IF schema[f].type = "EmailStr" THEN EmailStr(body[f].v).ok
         ELSE body[f].t = "str"
    ELSE ~schema[f].required

FieldValue(schema, body, f) ==
    IF f \in DOMAIN body
    THEN IF body[f] = None THEN None
         ELSE IF schema[f].type = "EmailStr" THEN Str(EmailStr(body[f].v).value)
         ELSE body[f]
    ELSE schema[f].default

Validate(schema, body) ==
    [ok    |-> \A f \in DOMAIN schema : FieldOk(schema, body, f),
     value |-> [f \in DOMAIN schema |-> FieldValue(schema, body, f)]]

\* BaseModel.model_dump(): the mapping of every declared field to its value
model_dump(payload) == payload

\* dict.get(key): None when the key is absent
Get(d, k) == IF k \in DOMAIN d THEN d[k] ELSE None

----------------------------------------------------------------------------
(* The store adapter (database.py), from spec.md 4.2.  A store state is    *)
(* [booking, lead, nextId, log]; every call appends to log what it         *)
(* attempted and whether it succeeded.                                     *)

Min(a, b) == IF a <= b THEN a ELSE b

Collection(st, collection_name) ==
    IF collection_name = "booking" THEN st.booking ELSE st.lead

LogEntry(op, collection_name, limit, ok) ==
    [op |-> op, collection |-> collection_name, limit |-> limit, ok |-> ok]

Logged(st, entry) == [st EXCEPT !.log = Append(@, entry)]

\* insert(collection_name, record) -> identifier.  Raises when the store
\* connection was never established or when the write fails; otherwise the
\* record is stored with a new identifier and the insertion time.
create_document(st, collection_name, data, fault) ==
    IF ~db_available
    THEN [ok |-> FALSE, id |-> "", err |-> "Database not available",
          st |-> Logged(st, LogEntry("insert", collection_name, 0, FALSE))]
    ELSE IF fault
    THEN [ok |-> FALSE, id |-> "", err |-> "write failed",
          st |-> Logged(st, LogEntry("insert", collection_name, 0, FALSE))]
    ELSE LET doc == data @@ ("_id" :> ObjectId(st.nextId))
                         @@ ("created_at" :> DateTime(st.nextId))
             st1 == IF collection_name = "booking"
                    THEN [st EXCEPT !.booking = Append(@, doc)]
                    ELSE [st EXCEPT !.lead = Append(@, doc)]
         IN  [ok |-> TRUE, id |-> Hex(st.nextId), err |-> "",
              st |-> Logged([st1 EXCEPT !.nextId = @ + 1],
                            LogEntry("insert", collection_name, 0, TRUE))]

\* query(collection_name, limit) -> up to `limit` records in the store's
\* default order, here the order of insertion.
get_documents(st, collection_name, limit, fault) ==
    IF ~db_available
    THEN [ok |-> FALSE, docs |-> <<>>, err |-> "Database not available",
          st |-> Logged(st, LogEntry("find", collection_name, limit, FALSE))]
    ELSE IF fault
    THEN [ok |-> FALSE, docs |-> <<>>, err |-> "read failed",
          st |-> Logged(st, LogEntry("find", collection_name, limit, FALSE))]
    ELSE LET c == Collection(st, collection_name)
         IN  [ok |-> TRUE, docs |-> SubSeq(c, 1, Min(limit, Len(c))), err |-> "",
              st |-> Logged(st, LogEntry("find", collection_name, limit, TRUE))]

\* collection_names(): the collections that exist, i.e. hold a document
list_collection_names(st) ==
    (IF Len(st.booking) > 0 THEN <<"booking">> ELSE <<>>)
    \o (IF Len(st.lead) > 0 THEN <<"lead">> ELSE <<>>)

----------------------------------------------------------------------------
(* Responses *)

Response(status_code, body) == [status |-> status_code, body |-> body]
HTTPException(status_code, detail) == Response(status_code, [detail |-> detail])
\* FastAPI's answer to a body its schema rejects; the handler is not called
RequestValidationError == HTTPException(422, "validation error")

Handled(st, response) == [st |-> st, resp |-> response]

----------------------------------------------------------------------------
(* The handlers: each maps the store state and the validated input to the  *)
(* store state it leaves and the response.                                 *)

read_root == Response(200, [message |-> "Geaux Driving API is running"])

\* url_set: os.getenv("DATABASE_URL") is set; fault: list_collection_names
\* raises.  The status texts are kept without their pictographs and the
\* error text without str(e).
test_database(st, url_set, fault) ==
    LET response == [backend |-> "Running", database |-> "Not Available",
                     database_url |-> "Not Set", database_name |-> "Not Set",
                     connection_status |-> "Not Connected", collections |-> <<>>]
    IN  IF db_available
        THEN LET r1 == [response EXCEPT
                          !.database = "Available",
                          !.database_url = IF url_set THEN "Set" ELSE "Not Set",
                          !.database_name = "db.name",
                          !.connection_status = "Connected"]
                 entry == LogEntry("list_collection_names", "", 0, ~fault)
             IN  IF fault
                 THEN Handled(Logged(st, entry),
                        Response(200, [r1 EXCEPT !.database = "Connected but Error"]))
                 ELSE Handled(Logged(st, entry),
                        Response(200, [r1 EXCEPT
                          !.collections = SubSeq(list_collection_names(st), 1,
                                            Min(15, Len(list_collection_names(st)))),
                          !.database = "Connected & Working"]))
        ELSE Handled(st, Response(200,
                        [response EXCEPT !.database = "Available but not initialized"]))

\* the f-string's `x or 'Any'`: None and the empty string are falsy
OrAny(x) == IF x = None \/ x.v = "" THEN "Any" ELSE x.v

lead_doc_SourceWebsite(dump) ==
    [name    |-> Get(dump, "student_name"),
     email   |-> Get(dump, "email"),
     phone   |-> Get(dump, "phone"),
     source  |-> Str("website"),
     tag     |-> Get(dump, "service"),
     message |-> Str("Booking requested for " \o Get(dump, "service").v
                     \o " on " \o Get(dump, "date").v
                     \o " at " \o Get(dump, "time").v
                     \o " with instructor " \o OrAny(Get(dump, "instructor")) \o ".")]

lead_doc(dump) ==
    [name    |-> Get(dump, "student_name"),
     email   |-> Get(dump, "email"),
     phone   |-> Get(dump, "phone"),
     source  |-> Str("booking"),
     tag     |-> Get(dump, "service"),
     message |-> Str("Booking requested for " \o Get(dump, "service").v
                     \o " on " \o Get(dump, "date").v
                     \o " at " \o Get(dump, "time").v
                     \o " with instructor " \o OrAny(Get(dump, "instructor")) \o ".")]

\* the defaults of the list handlers' `limit` parameter
list_bookings_limit == 50
list_leads_limit == 100

create_booking_KeepsGoing(st, payload, fault1, fault2) ==
    LET r1 == create_document(st, "booking", payload, fault1)
        dump == model_dump(payload)
        r2 == create_document(r1.st, "lead", lead_doc(dump), fault2)
    IN  IF ~r1.ok \/ ~r2.ok
        THEN Handled(r2.st, HTTPException(500, IF ~r1.ok THEN r1.err ELSE r2.err))
        ELSE Handled(r2.st, Response(200, [success |-> TRUE, booking_id |-> r1.id]))

create_booking(st, payload, fault1, fault2) ==
    LET r1 == create_document(st, "booking", payload, fault1)
    IN  IF ~r1.ok THEN Handled(r1.st, HTTPException(500, r1.err))
        ELSE LET dump == model_dump(payload)
                 r2 == create_document(r1.st, "lead", lead_doc(dump), fault2)
             IN  IF ~r2.ok THEN Handled(r2.st, HTTPException(500, r2.err))
                 ELSE Handled(r2.st, Response(200, [success |-> TRUE, booking_id |-> r1.id]))

list_bookings_IgnoresLimit(st, limit, fault) ==
    LET r == get_documents(st, "booking", list_bookings_limit, fault)
    IN  IF ~r.ok THEN Handled(r.st, HTTPException(500, r.err))
        ELSE Handled(r.st, Response(200, [i \in 1..Len(r.docs) |-> serialize_doc(r.docs[i])]))

list_bookings(st, limit, fault) ==
    LET r == get_documents(st, "booking", limit, fault)
    IN  IF ~r.ok THEN Handled(r.st, HTTPException(500, r.err))
        ELSE Handled(r.st, Response(200, [i \in 1..Len(r.docs) |-> serialize_doc(r.docs[i])]))

create_lead_Upsert(st, payload, fault) ==
    LET others == SelectSeq(st.lead, LAMBDA d : d.email # payload.email)
        r == create_document([st EXCEPT !.lead = others], "lead", payload, fault)
    IN  IF ~r.ok THEN Handled(r.st, HTTPException(500, r.err))
        ELSE Handled(r.st, Response(200, [success |-> TRUE, lead_id |-> r.id]))

create_lead(st, payload, fault) ==
    LET r == create_document(st, "lead", payload, fault)
    IN  IF ~r.ok THEN Handled(r.st, HTTPException(500, r.err))
        ELSE Handled(r.st, Response(200, [success |-> TRUE, lead_id |-> r.id]))

list_leads(st, limit, fault) ==
    LET r == get_documents(st, "lead", limit, fault)
    IN  IF ~r.ok THEN Handled(r.st, HTTPException(500, r.err))
        ELSE Handled(r.st, Response(200, [i \in 1..Len(r.docs) |-> serialize_doc(r.docs[i])]))

contact_doc_SourceWebsite(payload) == ("source" :> Str("website")) @@ model_dump(payload)

\* doc["source"] = "contact": the key is set whether or not the dump has it
contact_doc(payload) == ("source" :> Str("contact")) @@ model_dump(payload)

contact(st, payload, fault) ==
    LET r == create_document(st, "lead", contact_doc(payload), fault)
    IN  IF ~r.ok THEN Handled(r.st, HTTPException(500, r.err))
        ELSE Handled(r.st, Response(200, [success |-> TRUE, lead_id |-> r.id]))

brand == "Geaux Driving"

\* the three templates; of each html only its heading is kept
email_templates ==
    Response(200,
      << EmailTemplate("welcome",
            "Welcome to " \o brand \o "! Your Path to Safe, Confident Driving",
            "<h2>Welcome to " \o brand \o "!</h2>"),
         EmailTemplate("booking_confirmation",
            brand \o ": Your Driving Lesson is Confirmed",
            "<h2>Your lesson is confirmed!</h2>"),
         EmailTemplate("post_lesson",
            brand \o ": Great work today - review your evaluation in Zutobi",
            "<h2>Great job behind the wheel!</h2>") >>)

BookingFields == {"student_name", "email", "phone", "service", "instructor",
                  "date", "time", "pickup_location", "notes"}
LeadFields == {"name", "email", "phone", "source", "tag", "message"}

get_schema ==
    Response(200,
      [collections |-> << [name |-> "booking", fields |-> BookingFields],
                          [name |-> "lead", fields |-> LeadFields] >>])

----------------------------------------------------------------------------
(* The requests of the model: JSON bodies and query strings *)

Without(body, f) == [k \in DOMAIN body \ {f} |-> body[k]]

BookingFull ==
    [student_name |-> Str("Ann"), email |-> Str("ann@x.com"), phone |-> Str("555-0100"),
     service |-> Str("Road Test Prep"), instructor |-> Str("Sam"),
     date |-> Str("2025-03-01"), time |-> Str("10:00"),
     pickup_location |-> Str("Campus"), notes |-> Str("first lesson")]

\* the optional fields omitted, the address with an upper-case domain
BookingMin ==
    [student_name |-> Str("Bob"), email |-> Str("Bob@X.COM"), phone |-> Str("555-0101"),
     service |-> Str("Behind-the-Wheel"), date |-> Str("Friday"), time |-> Str("noon")]

BookingBodies ==
    {BookingFull, BookingMin, Without(BookingMin, "phone"),
     [BookingFull EXCEPT !.email = Str("not-an-email")]}

LeadMin == [name |-> Str("Cy"), email |-> Str("a@b.com")]

LeadFull ==
    [name |-> Str("Dee"), email |-> Str("Bob@X.COM"), phone |-> Str("555-0102"),
     source |-> Str("chat"), message |-> Str("call me"), tag |-> Str("teen")]

LeadBodies ==
    {LeadMin, LeadFull, Without(LeadMin, "name"),
     [LeadFull EXCEPT !.email = Str("not-an-email")]}

ContactOk ==
    [name |-> Str("A"), email |-> Str("a@b.com"), subject |-> Str("Hi"),
     message |-> Str("test")]

ContactBodies ==
    {ContactOk, Without(ContactOk, "subject"),
     [ContactOk EXCEPT !.email = Str("not-an-email")]}

NoBody == <<>>
NoQuery == <<>>
\* ?limit=L for L in 1..MaxLimit, or no query string
Queries == {NoQuery} \cup {[limit |-> L] : L \in 1..MaxLimit}

----------------------------------------------------------------------------
(* The state machine: one action per route *)

Init ==
    /\ db_available \in BOOLEAN
    /\ booking = <<>>
    /\ lead = <<>>
    /\ nextId = 1
    /\ log = <<>>
    /\ req = [endpoint |-> "startup", body |-> NoBody, query |-> NoQuery]
    /\ resp = Response(0, NoBody)
    /\ pre = [booking |-> <<>>, lead |-> <<>>]
    /\ submitted = <<>>

\* the store as the request finds it
Arrived == [booking |-> booking, lead |-> lead, nextId |-> nextId, log |-> <<>>]

\* the store can take k more documents within the model's bound
Room(k) == nextId + k - 1 <= MaxDocs

Respond(endpoint, body, query, h) ==
    /\ booking' = h.st.booking
    /\ lead' = h.st.lead
    /\ nextId' = h.st.nextId
    /\ log' = h.st.log
    /\ req' = [endpoint |-> endpoint, body |-> body, query |-> query]
    /\ resp' = h.resp
    /\ pre' = [booking |-> booking, lead |-> lead]
    /\ UNCHANGED db_available

Submit(endpoint, id, body) ==
    submitted' = (id :> [endpoint |-> endpoint, body |-> body]) @@ submitted

\* `limit: int = <default>`
Limit(query, default) == IF "limit" \in DOMAIN query THEN query.limit ELSE default

GetRoot ==
    /\ Respond("GET /", NoBody, NoQuery, Handled(Arrived, read_root))
    /\ UNCHANGED submitted

GetTest ==
    \E url_set, fault \in BOOLEAN :
        /\ Respond("GET /test", NoBody, NoQuery, test_database(Arrived, url_set, fault))
        /\ UNCHANGED submitted

PostApiBookings ==
    /\ Room(2)
    /\ \E body \in BookingBodies, fault1, fault2 \in BOOLEAN :
        LET payload == Validate(BookingCreate, body)
            h == IF payload.ok
                 THEN create_booking(Arrived, payload.value, fault1, fault2)
                 ELSE Handled(Arrived, RequestValidationError)
        IN  /\ Respond("POST /api/bookings", body, NoQuery, h)
            /\ IF h.resp.status = 200
               THEN Submit("POST /api/bookings", h.resp.body.booking_id, body)
               ELSE UNCHANGED submitted

GetApiBookings ==
    \E query \in Queries, fault \in BOOLEAN :
        /\ Respond("GET /api/bookings", NoBody, query,
                   list_bookings(Arrived, Limit(query, list_bookings_limit), fault))
        /\ UNCHANGED submitted

PostApiLeads ==
    /\ Room(1)
    /\ \E body \in LeadBodies, fault \in BOOLEAN :
        LET payload == Validate(LeadCreate, body)
            h == IF payload.ok
                 THEN create_lead(Arrived, payload.value, fault)
                 ELSE Handled(Arrived, RequestValidationError)
        IN  /\ Respond("POST /api/leads", body, NoQuery, h)
            /\ IF h.resp.status = 200
               THEN Submit("POST /api/leads", h.resp.body.lead_id, body)
               ELSE UNCHANGED submitted

GetApiLeads ==
    \E query \in Queries, fault \in BOOLEAN :
        /\ Respond("GET /api/leads", NoBody, query,
                   list_leads(Arrived, Limit(query, list_leads_limit), fault))
        /\ UNCHANGED submitted

PostApiContact ==
    /\ Room(1)
    /\ \E body \in ContactBodies, fault \in BOOLEAN :
        LET payload == Validate(ContactMessage, body)
            h == IF payload.ok
                 THEN contact(Arrived, payload.value, fault)
                 ELSE Handled(Arrived, RequestValidationError)
        IN  /\ Respond("POST /api/contact", body, NoQuery, h)
            /\ UNCHANGED submitted

GetApiEmailTemplates ==
    /\ Respond("GET /api/email-templates", NoBody, NoQuery, Handled(Arrived, email_templates))
    /\ UNCHANGED submitted

GetSchema ==
    /\ Respond("GET /schema", NoBody, NoQuery, Handled(Arrived, get_schema))
    /\ UNCHANGED submitted

Next ==
    \/ GetRoot
    \/ GetTest
    \/ PostApiBookings
    \/ GetApiBookings
    \/ PostApiLeads
    \/ GetApiLeads
    \/ PostApiContact
    \/ GetApiEmailTemplates
    \/ GetSchema

Spec == Init /\ [][Next]_vars

----------------------------------------------------------------------------
(* Vocabulary of the properties, from the data model of spec.md 3 *)

RequiredOfBooking == {"student_name", "email", "phone", "service", "date", "time"}
RequiredOfLead == {"name", "email"}
RequiredOfContact == {"name", "email", "subject", "message"}
FieldsOfBooking == RequiredOfBooking \cup {"instructor", "pickup_location", "notes"}
FieldsOfLead == {"name", "email", "phone", "source", "tag", "message"}
StoreFields == {"_id", "created_at"}

CreateEndpoints == {"POST /api/bookings", "POST /api/leads", "POST /api/contact"}
ListEndpoints == {"GET /api/bookings", "GET /api/leads"}
GetEndpoints == {"GET /", "GET /test", "GET /api/bookings", "GET /api/leads",
                 "GET /api/email-templates", "GET /schema"}

RequiredOf(endpoint) ==
    CASE endpoint = "POST /api/bookings" -> RequiredOfBooking
      [] endpoint = "POST /api/leads" -> RequiredOfLead
      [] OTHER -> RequiredOfContact

\* an address without "@"
Malformed(text) == text = "not-an-email"

MissesRequired(endpoint, body) == \E f \in RequiredOf(endpoint) : f \notin DOMAIN body
MalformedEmail(body) == "email" \in DOMAIN body /\ Malformed(body["email"].v)
ValidInput(endpoint, body) == ~MissesRequired(endpoint, body) /\ ~MalformedEmail(body)

\* the address with its domain part in lower case
DomainLowered(text) == IF text = "Bob@X.COM" THEN "Bob@x.com" ELSE text

Last(seq) == seq[Len(seq)]
IsPrefix(s, t) == Len(s) <= Len(t) /\ SubSeq(t, 1, Len(s)) = s
AddsOne(before, now) == Len(now) = Len(before) + 1 /\ IsPrefix(before, now)

Succeeded == resp.status = 200
Failed == resp.status = 500

\* the limit a list request asks for: its ?limit=, or the documented default
AskedLimit(default) == IF "limit" \in DOMAIN req.query THEN req.query.limit ELSE default

----------------------------------------------------------------------------
(* C1 *)

BookingAndDerivedLeadAdded ==
    /\ AddsOne(pre.booking, booking)
    /\ AddsOne(pre.lead, lead)
    /\ Get(Last(lead), "source") = Str("booking")
    /\ Get(Last(lead), "tag") = Last(booking).service
    /\ Get(Last(lead), "name") = Last(booking).student_name
    /\ Get(Last(lead), "email") = Last(booking).email
    /\ Get(Last(lead), "phone") = Last(booking).phone

\* C1 as stated: every POST /api/bookings request with a valid Booking input
\* adds exactly one booking record and exactly one lead record, the lead
\* having source "booking", tag = service and the booking's name, email and
\* phone.
C1_EveryValidBookingRequestAddsBoth ==
    (req.endpoint = "POST /api/bookings" /\ ValidInput(req.endpoint, req.body))
        => BookingAndDerivedLeadAdded

\* C1 amended: a POST /api/bookings request with a valid Booking input that
\* returns success has added exactly one booking record and exactly one lead
\* record, the lead having source "booking", tag = service and the booking's
\* name, email and phone.
C1_SuccessfulBookingRequestAddsBoth ==
    (/\ req.endpoint = "POST /api/bookings"
     /\ ValidInput(req.endpoint, req.body)
     /\ Succeeded)
        => BookingAndDerivedLeadAdded

C1_Witness ==
    /\ req.endpoint = "POST /api/bookings"
    /\ req.body = BookingMin
    /\ Succeeded
    /\ Len(booking) = 2

----------------------------------------------------------------------------
(* C2 *)

\* C2: a POST /api/bookings, /api/leads or /api/contact request whose body
\* misses a required field or carries a malformed email is rejected as a
\* validation failure before any store operation is attempted, and leaves
\* both collections unchanged.
C2_InvalidInputRejectedBeforeInsert ==
    (/\ req.endpoint \in CreateEndpoints
     /\ MissesRequired(req.endpoint, req.body) \/ MalformedEmail(req.body))
        => /\ resp.status = 422
           /\ log = <<>>
           /\ booking = pre.booking
           /\ lead = pre.lead

C2_Witness ==
    /\ req.endpoint = "POST /api/bookings"
    /\ "phone" \notin DOMAIN req.body
    /\ db_available
    /\ resp.status = 422
    /\ Len(booking) > 0

----------------------------------------------------------------------------
(* C3 *)

ListOf(create_endpoint) ==
    IF create_endpoint = "POST /api/bookings" THEN "GET /api/bookings" ELSE "GET /api/leads"

DefaultOf(list_endpoint) == IF list_endpoint = "GET /api/bookings" THEN 50 ELSE 100

StoredIn(list_endpoint) == IF list_endpoint = "GET /api/bookings" THEN booking ELSE lead

HasStringIdAndTimestamp(doc, id) ==
    /\ StoreFields \subseteq DOMAIN doc
    /\ doc["_id"] = Str(id)
    /\ doc["created_at"].t = "str"

\* C3 as stated: whenever the list endpoint is called, every record a
\* successful create inserted is in the response with the field values
\* submitted, and a string identifier and timestamp.
C3_EveryCreatedRecordListedAsSubmitted ==
    \A id \in DOMAIN submitted :
        req.endpoint = ListOf(submitted[id].endpoint)
            => /\ Succeeded
               /\ \E i \in 1..Len(resp.body) :
                    /\ HasStringIdAndTimestamp(resp.body[i], id)
                    /\ \A f \in DOMAIN submitted[id].body :
                            Get(resp.body[i], f) = submitted[id].body[f]

\* C3 amended: whenever the list endpoint succeeds with a limit that is at
\* least the number of records stored in its collection, every record a
\* successful create inserted is in the response with the field values
\* submitted, except that the email is the submitted address with its domain
\* part in lower case, and with a string identifier and timestamp.
C3_CreatedRecordListedWithinLimit ==
    \A id \in DOMAIN submitted :
        (/\ req.endpoint = ListOf(submitted[id].endpoint)
         /\ Succeeded
         /\ AskedLimit(DefaultOf(req.endpoint)) >= Len(StoredIn(req.endpoint)))
            => \E i \in 1..Len(resp.body) :
                    /\ HasStringIdAndTimestamp(resp.body[i], id)
                    /\ \A f \in DOMAIN submitted[id].body \ {"email"} :
                            Get(resp.body[i], f) = submitted[id].body[f]
                    /\ Get(resp.body[i], "email")
                            = Str(DomainLowered(submitted[id].body["email"].v))

C3_Witness ==
    /\ req.endpoint = "GET /api/bookings"
    /\ Succeeded
    /\ Len(resp.body) = 2
    /\ \E id \in DOMAIN submitted : submitted[id].body = BookingMin
    /\ \E id \in DOMAIN submitted : submitted[id].body = BookingFull

----------------------------------------------------------------------------
(* C4 *)

\* C4: a GET /api/bookings that returns records returns exactly
\* min(L, n) of them, n being the number of stored bookings and L the
\* ?limit= of the request; without ?limit= the store is asked for 50
\* bookings, and GET /api/leads asks for 100 leads.
C4_ListReturnsMinOfLimitAndStored ==
    (req.endpoint \in ListEndpoints /\ Succeeded)
        => /\ Len(resp.body) = Min(AskedLimit(DefaultOf(req.endpoint)),
                                   Len(StoredIn(req.endpoint)))
           /\ Len(log) = 1
           /\ log[1].op = "find"
           /\ log[1].limit = AskedLimit(DefaultOf(req.endpoint))

C4_Witness ==
    /\ req.endpoint = "GET /api/bookings"
    /\ req.query = [limit |-> 2]
    /\ Len(booking) = 3
    /\ Succeeded
    /\ Len(resp.body) = 2

----------------------------------------------------------------------------
(* C5 *)

\* C5: the record a successful POST /api/leads stores has source "website"
\* when the body omits source, and the body's source otherwise.
C5_LeadSourceDefaultsToWebsite ==
    (req.endpoint = "POST /api/leads" /\ Succeeded)
        => /\ AddsOne(pre.lead, lead)
           /\ Get(Last(lead), "source") =
                 IF "source" \in DOMAIN req.body THEN req.body["source"] ELSE Str("website")

C5_Witness ==
    /\ req.endpoint = "POST /api/leads"
    /\ "source" \notin DOMAIN req.body
    /\ Succeeded
    /\ Last(lead).name = Str("Cy")

----------------------------------------------------------------------------
(* C6 *)

\* C6: a successful POST /api/contact adds exactly one record to "lead",
\* with source "contact" and the submitted message, and nothing to
\* "booking".
C6_ContactAddsOneContactLead ==
    (req.endpoint = "POST /api/contact" /\ Succeeded)
        => /\ ValidInput(req.endpoint, req.body)
           /\ AddsOne(pre.lead, lead)
           /\ Get(Last(lead), "source") = Str("contact")
           /\ Get(Last(lead), "message") = req.body["message"]
           /\ booking = pre.booking

C6_Witness ==
    /\ req.endpoint = "POST /api/contact"
    /\ req.body = ContactOk
    /\ Succeeded
    /\ Last(lead).message = Str("test")

----------------------------------------------------------------------------
(* C7 *)

\* C7: when a store operation of a create or list request fails, the
\* request answers 500, the failed operation is the last one the request
\* issued and the only one that failed: it is not retried and nothing
\* follows it.
C7_StoreFaultSurfacesWithoutRetry ==
    (/\ req.endpoint \in CreateEndpoints \cup ListEndpoints
     /\ \E i \in 1..Len(log) : ~log[i].ok)
        => /\ Failed
           /\ ~Last(log).ok
           /\ \A i \in 1..(Len(log) - 1) : log[i].ok
           /\ \A i, j \in 1..Len(log) :
                 (log[i].op = log[j].op /\ log[i].collection = log[j].collection) => i = j

C7_Witness ==
    /\ req.endpoint = "POST /api/bookings"
    /\ db_available
    /\ Len(log) = 1
    /\ log[1] = LogEntry("insert", "booking", 0, FALSE)
    /\ Failed

----------------------------------------------------------------------------
(* C8 *)

\* C8: every request leaves the records that were stored when it arrived
\* in place and unchanged (the collections only grow at the end), and the
\* GET requests leave both collections as they were.
C8_CollectionsAppendOnly ==
    /\ IsPrefix(pre.booking, booking)
    /\ IsPrefix(pre.lead, lead)
    /\ req.endpoint \in GetEndpoints => (booking = pre.booking /\ lead = pre.lead)

C8_Witness ==
    /\ req.endpoint = "POST /api/leads"
    /\ Len(pre.lead) >= 2
    /\ Len(pre.booking) >= 1
    /\ Len(lead) = Len(pre.lead) + 1

----------------------------------------------------------------------------
(* C9 *)

DerivedFrom(l, b) ==
    /\ Get(l, "source") = Str("booking")
    /\ Get(l, "name") = b.student_name
    /\ Get(l, "email") = b.email
    /\ Get(l, "phone") = b.phone
    /\ Get(l, "tag") = b.service

\* C9: in every reachable state, also after requests that failed with 500,
\* every record of "booking" has its derived record in "lead": no booking is
\* stored without its derived lead.
C9_NoBookingWithoutDerivedLead ==
    \A i \in 1..Len(booking) : \E j \in 1..Len(lead) : DerivedFrom(lead[j], booking[i])

----------------------------------------------------------------------------
(* C10 *)

\* C10: every record of "lead" carries only the Lead fields besides the
\* store's identifier and timestamp, and every record of "booking" only the
\* Booking fields.
C10_RecordsCarryOnlyModelFields ==
    /\ \A j \in 1..Len(lead) : DOMAIN lead[j] \subseteq FieldsOfLead \cup StoreFields
    /\ \A i \in 1..Len(booking) : DOMAIN booking[i] \subseteq FieldsOfBooking \cup StoreFields

====
